---- MODULE Spec2Model ----
(***************************************************************************)
(* Model of the FastAPI sample application with Descope authentication:    *)
(*   app/auth.py  TokenVerifier (the Authentication Gate, the Token        *)
(*                Validator and the Scope Enforcer)                        *)
(*   app/main.py  authorize, token, oauth_callback (the OAuth proxy)       *)
(*                                                                         *)
(* Python strings are sequences of chunks: a chunk is a piece of text that *)
(* no operation of the program cuts (a word, a URL, one punctuation mark). *)
(* Concatenation is \o.  An Optional[str] is <<>> (None) or <<s>>.         *)
(***************************************************************************)
EXTENDS Integers, Sequences, FiniteSets, TLC

\* ------------------------------------------------------------------ bounds
\* longest scope claim (in chunks) handed to the Scope Enforcer
MaxClaimLen == 3
\* longest ScopeRequirement handed to the Scope Enforcer
MaxReq == 2
\* longest state string (in chunks) a caller hands to authorize
MaxStateLen == 2

\* ------------------------------------------------------------- text helpers
Range(s) == {s[i] : i \in 1..Len(s)}

RECURSIVE SeqsUpTo(_, _)
\* every sequence over S of length at most n
SeqsUpTo(S, n) ==
    IF n = 0 THEN {<<>>}
    ELSE LET shorter == SeqsUpTo(S, n - 1)
         IN  shorter \cup {Append(s, x) : s \in {t \in shorter : Len(t) = n - 1}, x \in S}

None == <<>>
Some(s) == <<s>>
\* Python truthiness of an Optional[str]: None and "" are falsy
Truthy(o) == o # None /\ o[1] # <<>>

\* str.split() without arguments: the maximal runs of non-whitespace
RECURSIVE SplitFrom(_, _, _)
SplitFrom(s, i, word) ==
    IF i > Len(s)
    THEN IF word = <<>> THEN <<>> ELSE <<word>>
    ELSE IF s[i] = " "
         THEN IF word = <<>> THEN SplitFrom(s, i + 1, <<>>)
                             ELSE <<word>> \o SplitFrom(s, i + 1, <<>>)
         ELSE SplitFrom(s, i + 1, Append(word, s[i]))

Split(s) == SplitFrom(s, 1, <<>>)

\* sep.join(items)
RECURSIVE Join(_, _)
Join(items, sep) ==
    IF items = <<>> THEN <<>>
    ELSE IF Len(items) = 1 THEN items[1]
    ELSE items[1] \o sep \o Join(Tail(items), sep)

\* [x for x in items if x not in pool]
RECURSIVE NotIn(_, _)
NotIn(items, pool) ==
    IF items = <<>> THEN <<>>
    ELSE IF items[1] \in pool THEN NotIn(Tail(items), pool)
         ELSE <<items[1]>> \o NotIn(Tail(items), pool)

\* ------------------------------------------------------------ Scope Enforcer
\* the permissions the protected operations of main.py declare
ReadMessages == <<"read:messages">>
WriteMessages == <<"write:messages">>
DeleteMessages == <<"delete:messages">>
Permissions == {ReadMessages, WriteMessages, DeleteMessages}

\* payload.get("scope"): absent, a string, or a list of strings
NoScopeClaim == [t |-> "none", v |-> <<>>]
StrClaim(s) == [t |-> "str", v |-> s]
ListClaim(l) == [t |-> "list", v |-> l]

Passed == [ok |-> TRUE, exc |-> "", cause |-> <<>>, missing |-> <<>>]
Raised(exc, cause, missing) == [ok |-> FALSE, exc |-> exc, cause |-> cause, missing |-> missing]

\* a slip: a token without a scope claim is treated as one granting nothing
EnforceScopesNoneAsEmpty(scope_claim, required_scopes) ==
    LET scopes == IF scope_claim.t = "str" THEN Split(scope_claim.v) ELSE scope_claim.v
        missing == NotIn(required_scopes, Range(scopes))
    IN  IF missing # <<>>
        THEN Raised("UnauthorizedException",
                    <<"Missing required scopes: ">> \o Join(missing, <<", ">>), missing)
        ELSE Passed

\* a slip: only the first missing permission is reported
EnforceScopesFirstMissing(scope_claim, required_scopes) ==
    IF scope_claim.t = "none"
    THEN Raised("UnauthorizedException", <<"Missing required claim: \"scope\"">>, <<>>)
    ELSE LET scopes == IF scope_claim.t = "str" THEN Split(scope_claim.v) ELSE scope_claim.v
             all == NotIn(required_scopes, Range(scopes))
             missing == IF all = <<>> THEN <<>> ELSE <<all[1]>>
         IN  IF missing # <<>>
             THEN Raised("UnauthorizedException",
                         <<"Missing required scopes: ">> \o Join(missing, <<", ">>), missing)
             ELSE Passed

\* TokenVerifier._enforce_scopes
EnforceScopes(scope_claim, required_scopes) ==
    IF scope_claim.t = "none"
    THEN Raised("UnauthorizedException", <<"Missing required claim: \"scope\"">>, <<>>)
    ELSE LET scopes == IF scope_claim.t = "str" THEN Split(scope_claim.v) ELSE scope_claim.v
             missing == NotIn(required_scopes, Range(scopes))
         IN  IF missing # <<>>
             THEN Raised("UnauthorizedException",
                         <<"Missing required scopes: ">> \o Join(missing, <<", ">>), missing)
             ELSE Passed

\* ------------------------------------------------------- Token Validator
\* os.getenv("DESCOPE_PROJECT_ID")
ProjectId == "P2abc"
\* self.allowed_algorithms
AllowedAlgorithms == {"RS256"}
\* issuer_candidates of _decode_token
IssuerCandidates == {"https://api.descope.com/v1/apps/P2abc", ProjectId}

Algorithms == {"RS256", "HS256", "none"}
Issuers == IssuerCandidates \cup {"https://issuer.example"}
Audiences == {ProjectId, "other-project"}

\* the scope claims the presented tokens carry
GateScopeClaims ==
    { NoScopeClaim,
      StrClaim(WriteMessages \o <<" ">> \o ReadMessages),
      ListClaim(<<DeleteMessages>>) }

\* a bearer token, by what the verifier reads of it
Tokens ==
    [ alg : Algorithms, sig : {"valid", "forged"}, exp : {"future", "past"},
      iss : Issuers, aud : Audiences, scope : GateScopeClaims ]

\* what get_signing_key_from_jwt ends with: the key, or an error (no such key id,
\* a malformed token, the JWKS endpoint unreachable)
JwksOutcomes == {"key", "unreachable"}

\* the claim set jwt.decode returns
Claims(token) == [iss |-> token.iss, aud |-> token.aud, exp |-> token.exp, scope |-> token.scope]

Ok(value) == [ok |-> TRUE, exc |-> "", cause |-> <<>>, value |-> value]
Fail(exc, cause) == [ok |-> FALSE, exc |-> exc, cause |-> cause, value |-> <<>>]

\* TokenVerifier._get_signing_key
GetSigningKey(jwks_client, jwks) ==
    IF jwks_client = "None"
    THEN Fail("Exception", <<"JWKS client not available">>)
    ELSE IF jwks = "key"
         THEN Ok("signing-key")
         ELSE Fail("UnauthorizedException", <<"Failed to fetch signing key: ", jwks>>)

\* jwt.decode(token, key, algorithms, issuer, audience): the first failing check
DecodeFailure(token) ==
    IF token.alg \notin AllowedAlgorithms THEN <<"The specified alg value is not allowed">>
    ELSE IF token.sig # "valid" THEN <<"Signature verification failed">>
    ELSE IF token.exp = "past" THEN <<"Signature has expired">>
    ELSE IF token.iss \notin IssuerCandidates THEN <<"Invalid issuer">>
    ELSE IF token.aud # ProjectId THEN <<"Audience doesn't match">>
    ELSE <<>>

\* TokenVerifier._decode_token
DecodeToken(token, key) ==
    IF DecodeFailure(token) = <<>>
    THEN Ok(Claims(token))
    ELSE Fail("UnauthorizedException", <<"Token decoding failed: ">> \o DecodeFailure(token))

\* str(e) of an exception raised on the verification path
ExcStr(failure) == failure.cause

MockPayload ==
    [ user_id |-> "mock-user-id", email |-> "mock@example.com",
      note |-> "Mock response for deployment testing" ]

Return(payload, steps) ==
    [kind |-> "return", exc |-> "", cause |-> <<>>, payload |-> <<payload>>, steps |-> steps]
Raise(exc, cause, steps) ==
    [kind |-> "raise", exc |-> exc, cause |-> cause, payload |-> <<>>, steps |-> steps]

\* a slip: the mock payload answers a failure on every operation
OnVerificationFailureAlwaysMock(scopes, failure, steps) ==
    Return(MockPayload, steps)

\* the except branch of TokenVerifier.__call__
OnVerificationFailure(scopes, failure, steps) ==
    IF scopes = <<>>
    THEN Return(MockPayload, steps)
    ELSE Raise("UnauthorizedException",
               <<"Token validation failed: ">> \o ExcStr(failure), steps)

\* the try block of TokenVerifier.__call__ and its except branch
VerifyPresented(credentials, scopes, jwks_client, jwks) ==
    LET key == GetSigningKey(jwks_client, jwks)
    IN  IF ~key.ok
        THEN OnVerificationFailure(scopes, key, <<"_get_signing_key">>)
        ELSE
          LET payload == DecodeToken(credentials, key.value)
          IN  IF ~payload.ok
              THEN OnVerificationFailure(scopes, payload,
                                         <<"_get_signing_key", "_decode_token">>)
              ELSE IF scopes # <<>>
              THEN LET enforced == EnforceScopes(payload.value.scope, scopes)
                   IN  IF ~enforced.ok
                       THEN OnVerificationFailure(scopes, enforced,
                                <<"_get_signing_key", "_decode_token", "_enforce_scopes">>)
                       ELSE Return(payload.value,
                                <<"_get_signing_key", "_decode_token", "_enforce_scopes">>)
              ELSE Return(payload.value, <<"_get_signing_key", "_decode_token">>)

\* a slip: the check for a missing credential sits inside the try block, so
\* its exception is handled like a verification failure
TokenVerifierCallNoneInsideTry(token, scopes, jwks_client, jwks) ==
    IF token = None
    THEN OnVerificationFailure(scopes, Fail("UnauthenticatedException", <<>>), <<>>)
    ELSE VerifyPresented(token[1], scopes, jwks_client, jwks)

\* TokenVerifier.__call__ : token is None or <<the credentials>>
TokenVerifierCall(token, scopes, jwks_client, jwks) ==
    IF token = None
    THEN Raise("UnauthenticatedException", <<>>, <<>>)
    ELSE VerifyPresented(token[1], scopes, jwks_client, jwks)

\* Security(auth, scopes=[...]) of the protected routes of main.py
EndpointScopes ==
    { <<>>,
      <<ReadMessages>>,
      <<ReadMessages, WriteMessages>>,
      <<DeleteMessages>> }

\* ------------------------------------------------------------ JSON and URLs
\* JSON values: strings, null, a number, objects (a sequence of <<key, value>>)
JStr(s) == [t |-> "str", v |-> s]
JNull == [t |-> "null", v |-> <<>>]
JNum == [t |-> "num", v |-> <<"1">>]
JObj(members) == [t |-> "obj", v |-> members]

\* json.dumps of a string: quotes and backslashes are escaped
RECURSIVE Escape(_)
Escape(s) ==
    IF s = <<>> THEN <<>>
    ELSE (IF s[1] \in {"\"", "\\"} THEN <<"\\", s[1]>> ELSE <<s[1]>>) \o Escape(Tail(s))

JsonString(s) == <<"\"">> \o Escape(s) \o <<"\"">>

\* json.dumps({"state": state, "redirect_uri": redirect_uri})
DumpsState(state, redirect_uri) ==
    <<"{">> \o JsonString(<<"state">>) \o <<":", " ">> \o JsonString(state)
    \o <<",", " ">>
    \o JsonString(<<"redirect_uri">>) \o <<":", " ">> \o JsonString(redirect_uri)
    \o <<"}">>

Parsed(value, next) == [ok |-> TRUE, value |-> value, next |-> next]
NoParse == [ok |-> FALSE, value |-> JNull, next |-> 0]

RECURSIVE SkipWs(_, _)
SkipWs(s, i) == IF i <= Len(s) /\ s[i] = " " THEN SkipWs(s, i + 1) ELSE i

\* the body of a JSON string, from just after its opening quote
RECURSIVE ParseStringBody(_, _, _)
ParseStringBody(s, i, acc) ==
    IF i > Len(s) THEN NoParse
    ELSE IF s[i] = "\"" THEN Parsed(JStr(acc), i + 1)
    ELSE IF s[i] = "\\"
         THEN IF i + 1 <= Len(s) /\ s[i + 1] \in {"\"", "\\"}
              THEN ParseStringBody(s, i + 2, Append(acc, s[i + 1]))
              ELSE NoParse
    ELSE ParseStringBody(s, i + 1, Append(acc, s[i]))

RECURSIVE ParseValue(_, _)
RECURSIVE ParseMembers(_, _, _)

\* the members of a JSON object, from just after "{" or ","
ParseMembers(s, i, acc) ==
    LET k == SkipWs(s, i)
    IN  IF k > Len(s) \/ s[k] # "\"" THEN NoParse
        ELSE LET key == ParseStringBody(s, k + 1, <<>>)
             IN  IF ~key.ok THEN NoParse
                 ELSE LET c == SkipWs(s, key.next)
                      IN  IF c > Len(s) \/ s[c] # ":" THEN NoParse
                          ELSE LET val == ParseValue(s, c + 1)
                               IN  IF ~val.ok THEN NoParse
                                   ELSE LET e == SkipWs(s, val.next)
                                            all == Append(acc, <<key.value.v, val.value>>)
                                        IN  IF e > Len(s) THEN NoParse
                                            ELSE IF s[e] = "}" THEN Parsed(JObj(all), e + 1)
                                            ELSE IF s[e] = "," THEN ParseMembers(s, e + 1, all)
                                            ELSE NoParse

ParseValue(s, i) ==
    LET k == SkipWs(s, i)
    IN  IF k > Len(s) THEN NoParse
        ELSE IF s[k] = "\"" THEN ParseStringBody(s, k + 1, <<>>)
        ELSE IF s[k] = "null" THEN Parsed(JNull, k + 1)
        ELSE IF s[k] = "1" THEN Parsed(JNum, k + 1)
        ELSE IF s[k] = "{"
             THEN LET e == SkipWs(s, k + 1)
                  IN  IF e <= Len(s) /\ s[e] = "}" THEN Parsed(JObj(<<>>), e + 1)
                      ELSE ParseMembers(s, k + 1, <<>>)
        ELSE NoParse

\* json.loads: one value and nothing after it, or an error
Loads(s) ==
    LET v == ParseValue(s, 1)
    IN  IF v.ok /\ SkipWs(s, v.next) > Len(s) THEN v ELSE NoParse

\* dict.get(key, default): the last member with that key
RECURSIVE DictGet(_, _, _)
DictGet(members, key, default) ==
    IF members = <<>> THEN default
    ELSE IF members[Len(members)][1] = key THEN members[Len(members)][2]
    ELSE DictGet(SubSeq(members, 1, Len(members) - 1), key, default)

\* f"{value}" of a value read from JSON
PyStr(value) ==
    IF value.t = "str" THEN value.v
    ELSE IF value.t = "null" THEN <<"None">>
    ELSE IF value.t = "num" THEN value.v
    ELSE <<"{...}">>

\* bool(value) of a value read from JSON
PyTruthy(value) ==
    IF value.t \in {"str", "obj"} THEN value.v # <<>>
    ELSE value.t = "num"

\* the position of the first chunk of s that is in marks, from i on; Len(s)+1 if none
RECURSIVE Find(_, _, _)
Find(s, marks, i) ==
    IF i > Len(s) THEN Len(s) + 1
    ELSE IF s[i] \in marks THEN i
    ELSE Find(s, marks, i + 1)

\* the query string of a URL cut at "&" into <<name, value>> pairs, as every
\* receiver of the URL reads it; "?", "&", "=" and "#" keep their meaning
\* wherever they stand, since nothing quoted them
RECURSIVE QueryPairs(_)
QueryPairs(q) ==
    IF q = <<>> THEN <<>>
    ELSE LET amp == Find(q, {"&"}, 1)
             item == SubSeq(q, 1, amp - 1)
             eq == Find(item, {"="}, 1)
             pair == <<SubSeq(item, 1, eq - 1), SubSeq(item, eq + 1, Len(item))>>
         IN  (IF item = <<>> THEN <<>> ELSE <<pair>>)
             \o QueryPairs(SubSeq(q, amp + 1, Len(q)))

UrlTarget(url) == SubSeq(url, 1, Find(url, {"?", "#"}, 1) - 1)

UrlQuery(url) ==
    LET nofrag == SubSeq(url, 1, Find(url, {"#"}, 1) - 1)
    IN  SubSeq(nofrag, Find(nofrag, {"?"}, 1) + 1, Len(nofrag))

\* the value of the first query parameter of that name, or None
RECURSIVE FirstOf(_, _)
FirstOf(pairs, name) ==
    IF pairs = <<>> THEN None
    ELSE IF pairs[1][1] = name THEN Some(pairs[1][2])
    ELSE FirstOf(Tail(pairs), name)

UrlParam(url, name) == FirstOf(QueryPairs(UrlQuery(url)), name)

\* --------------------------------------------------------------- responses
\* raise HTTPException(status_code, detail={"error", "error_description"})
HttpError(status, error, error_description, log) ==
    [ kind |-> "error", status |-> status, error |-> error,
      error_description |-> error_description, location |-> None, log |-> log ]

\* RedirectResponse(url)
RedirectResponse(url, log) ==
    [ kind |-> "redirect", status |-> 307, error |-> <<>>,
      error_description |-> None, location |-> Some(url), log |-> log ]

\* --------------------------------------------------- Authorization Redirector
DescopeAuthorizeUrl == <<"https://api.descope.com/oauth2/v1/apps/authorize">>
OwnCallbackUrl == <<"https://fast-api-for-custom-gpt.vercel.app/api/oauth/callback">>
DefaultRedirectUri == <<"https://chat.openai.com/oauth/callback">>

\* f"{value}" of an Optional[str]
OptStr(o) == IF o = None THEN <<"None">> ELSE o[1]
\* value or default
OrElse(o, default) == IF Truthy(o) THEN o[1] ELSE default

\* a slip: the caller's redirect_uri is not checked
AuthorizeNoRedirectUriCheck(response_type, client_id, redirect_uri, scope, state, settings) ==
    IF ~Truthy(client_id) \/ ~Truthy(response_type)
    THEN HttpError(400, <<"invalid_request">>, Some(<<"Missing required parameters">>), <<>>)
    ELSE IF response_type[1] # <<"code">>
    THEN HttpError(400, <<"unsupported_response_type">>,
                   Some(<<"Only \"code\" is supported">>), <<>>)
    ELSE RedirectResponse(
             DescopeAuthorizeUrl \o <<"?">>
             \o <<"client_id", "=">> \o OptStr(settings.descope_inbound_app_client_id)
             \o <<"&", "redirect_uri", "=">> \o OwnCallbackUrl
             \o <<"&", "response_type", "=", "code">>
             \o <<"&", "scope", "=">> \o OrElse(scope, <<"openid">>)
             \o <<"&", "state", "=">> \o DumpsState(OrElse(state, <<>>), OptStr(redirect_uri)),
             <<>>)

\* authorize() of main.py
Authorize(response_type, client_id, redirect_uri, scope, state, settings) ==
    IF ~Truthy(client_id) \/ ~Truthy(redirect_uri) \/ ~Truthy(response_type)
    THEN HttpError(400, <<"invalid_request">>, Some(<<"Missing required parameters">>), <<>>)
    ELSE IF response_type[1] # <<"code">>
    THEN HttpError(400, <<"unsupported_response_type">>,
                   Some(<<"Only \"code\" is supported">>), <<>>)
    ELSE RedirectResponse(
             DescopeAuthorizeUrl \o <<"?">>
             \o <<"client_id", "=">> \o OptStr(settings.descope_inbound_app_client_id)
             \o <<"&", "redirect_uri", "=">> \o OwnCallbackUrl
             \o <<"&", "response_type", "=", "code">>
             \o <<"&", "scope", "=">> \o OrElse(scope, <<"openid">>)
             \o <<"&", "state", "=">> \o DumpsState(OrElse(state, <<>>), redirect_uri[1]),
             <<>>)

\* -------------------------------------------------------------- Callback Relay
\* the redirect target and the state oauth_callback recovers from its state parameter
RecoverState(state) ==
    IF ~Truthy(state)
    THEN [redirect_uri |-> JStr(DefaultRedirectUri), state |-> JStr(<<>>), log |-> <<>>]
    ELSE LET state_data == Loads(state[1])
         IN  IF state_data.ok /\ state_data.value.t = "obj"
             THEN [ redirect_uri |-> DictGet(state_data.value.v, <<"redirect_uri">>,
                                             JStr(DefaultRedirectUri)),
                    state |-> DictGet(state_data.value.v, <<"state">>, JStr(<<>>)),
                    log |-> <<>> ]
             ELSE [ redirect_uri |-> JStr(DefaultRedirectUri), state |-> JStr(state[1]),
                    log |-> << <<"Failed to parse state: ">> >> ]

\* a slip: the provider's error is only looked at when no code came with it
OauthCallbackCodeFirst(code, state, error, error_description) ==
    IF ~Truthy(code)
    THEN IF Truthy(error)
         THEN HttpError(400, error[1], error_description, <<>>)
         ELSE HttpError(400, <<"invalid_request">>,
                        Some(<<"No authorization code received">>), <<>>)
    ELSE LET original == RecoverState(state)
         IN  RedirectResponse(
                 PyStr(original.redirect_uri) \o <<"?", "code", "=">> \o code[1]
                 \o (IF PyTruthy(original.state)
                     THEN <<"&", "state", "=">> \o PyStr(original.state) ELSE <<>>),
                 original.log)

\* oauth_callback() of main.py
OauthCallback(code, state, error, error_description) ==
    IF Truthy(error)
    THEN HttpError(400, error[1], error_description,
                   << <<"Descope authorization error: ">> \o error[1] \o <<", ">>
                      \o OptStr(error_description) >>)
    ELSE IF ~Truthy(code)
    THEN HttpError(400, <<"invalid_request">>,
                   Some(<<"No authorization code received">>), <<>>)
    ELSE LET original == RecoverState(state)
         IN  RedirectResponse(
                 PyStr(original.redirect_uri) \o <<"?", "code", "=">> \o code[1]
                 \o (IF PyTruthy(original.state)
                     THEN <<"&", "state", "=">> \o PyStr(original.state) ELSE <<>>),
                 original.log)

\* -------------------------------------------------------------- Token Exchanger
DescopeTokenUrl == <<"https://api.descope.com/oauth2/v1/apps/token">>

NoFields == [grant_type |-> None, code |-> None, client_id |-> None, client_secret |-> None]

\* the body as token() reads it: request.json() or dict(await request.form()),
\* chosen by the content type; <<>> when reading it raises
ParseBody(content_type, body_format, fields) ==
    IF content_type = "application/json"
    THEN IF body_format = "json" THEN <<fields>> ELSE <<>>
    ELSE IF content_type = "application/x-www-form-urlencoded"
    THEN IF body_format = "form" THEN <<fields>> ELSE <<NoFields>>
    ELSE IF body_format = "json" THEN <<fields>> ELSE <<NoFields>>

\* what token() answers: a JSON body with FastAPI's default status, or an
\* HTTPException; outbound is the POST made to the provider, if one was made
TokenError(status, error, error_description, log, outbound) ==
    [ kind |-> "error", status |-> status, error |-> error,
      error_description |-> error_description, body |-> <<>>, log |-> log,
      outbound |-> outbound ]
TokenJson(status, body, log, outbound) ==
    [ kind |-> "json", status |-> status, error |-> <<>>, error_description |-> <<>>,
      body |-> body, log |-> log, outbound |-> outbound ]

ServerError(log, outbound) ==
    TokenError(500, <<"server_error">>, <<"Internal server error">>, log, outbound)

\* token_request_body and the POST that carries it
TokenRequestBody(settings, code) ==
    [ grant_type |-> <<"authorization_code">>,
      client_id |-> settings.descope_inbound_app_client_id[1],
      client_secret |-> settings.descope_inbound_app_client_secret[1],
      code |-> code,
      redirect_uri |-> OwnCallbackUrl ]

\* str(token_request_body), as the print of it shows
BodyText(b) ==
    <<"grant_type=">> \o b.grant_type \o <<" client_id=">> \o b.client_id
    \o <<" client_secret=">> \o b.client_secret \o <<" code=">> \o b.code
    \o <<" redirect_uri=">> \o b.redirect_uri

\* the exchange with the provider and the relay of its answer
Exchange(settings, code, reply) ==
    LET post == [url |-> DescopeTokenUrl, data |-> TokenRequestBody(settings, code)]
        sent == << <<"Token exchange request body: ">> \o BodyText(post.data),
                   <<"Token exchange URL: ">> \o DescopeTokenUrl >>
    IN  IF reply.kind # "json"
        THEN ServerError(Append(sent, <<"Token endpoint error: ", reply.kind>>), Some(post))
        ELSE TokenJson(200, reply.body,
                 sent \o << <<"Descope token response status: ", ToString(reply.status)>>,
                            <<"Descope token response data: ">> \o reply.body >>
                      \o (IF reply.status >= 400
                          THEN << <<"Descope token exchange failed: ">> \o reply.body >>
                          ELSE <<>>),
                 Some(post))

\* a slip: the credentials of the caller's body are forwarded to the provider
TokenForwardsCallerCredentials(content_type, body_format, fields, settings, reply) ==
    LET parsed == ParseBody(content_type, body_format, fields)
    IN  IF parsed = <<>> THEN ServerError(<< <<"Token endpoint error: ">> >>, None)
        ELSE LET body == parsed[1]
             IN  IF \/ ~Truthy(body.grant_type) \/ ~Truthy(body.code)
                    \/ ~Truthy(body.client_id) \/ ~Truthy(body.client_secret)
                 THEN TokenError(400, <<"invalid_request">>,
                                 <<"Missing required parameters">>, <<>>, None)
                 ELSE IF body.grant_type[1] # <<"authorization_code">>
                 THEN TokenError(400, <<"unsupported_grant_type">>,
                                 <<"Only authorization_code is supported">>, <<>>, None)
                 ELSE Exchange([descope_inbound_app_client_id |-> body.client_id,
                                descope_inbound_app_client_secret |-> body.client_secret],
                               body.code[1], reply)

\* token() of main.py
Token(content_type, body_format, fields, settings, reply) ==
    LET parsed == ParseBody(content_type, body_format, fields)
    IN  IF parsed = <<>> THEN ServerError(<< <<"Token endpoint error: ">> >>, None)
        ELSE LET body == parsed[1]
             IN  IF \/ ~Truthy(body.grant_type) \/ ~Truthy(body.code)
                    \/ ~Truthy(body.client_id) \/ ~Truthy(body.client_secret)
                 THEN TokenError(400, <<"invalid_request">>,
                                 <<"Missing required parameters">>, <<>>, None)
                 ELSE IF body.grant_type[1] # <<"authorization_code">>
                 THEN TokenError(400, <<"unsupported_grant_type">>,
                                 <<"Only authorization_code is supported">>, <<>>, None)
                 ELSE IF \/ ~Truthy(settings.descope_inbound_app_client_id)
                         \/ ~Truthy(settings.descope_inbound_app_client_secret)
                 THEN TokenError(500, <<"server_error">>, <<"OAuth configuration incomplete">>,
                          << <<"Missing environment variables for token exchange">>,
                             <<"CLIENT_ID: ",
                               IF Truthy(settings.descope_inbound_app_client_id)
                               THEN "True" ELSE "False">>,
                             <<"CLIENT_SECRET: ",
                               IF Truthy(settings.descope_inbound_app_client_secret)
                               THEN "True" ELSE "False">> >>, None)
                 ELSE Exchange(settings, body.code[1], reply)

\* ------------------------------------------------------------------- state
VARIABLES
    jwks_client,   \* TokenVerifier.jwks_client: "PyJWKClient" or "None"
    settings,      \* get_settings(): the inbound app's client id and secret
    gate,          \* the last protected request and the gate's outcome
    enf,           \* a call of _enforce_scopes: its arguments, then its result
    enfNoClaim,    \* a call of _enforce_scopes on a claim set without "scope"
    authz,         \* the authorize request and its response
    cbreq,         \* the callback request the provider sent the user agent to
    cb,            \* the last callback request and its response
    tok,           \* the last token request and its response
    consumed       \* history: the state parameters whose callback was answered
                   \* with a redirect (the handlers themselves keep no such record)

vars == <<jwks_client, settings, gate, enf, enfNoClaim, authz, cbreq, cb, tok, consumed>>

Idle == [called |-> FALSE]

ClientId == <<"descope-client-id">>
ClientSecret == <<"descope-client-secret">>
Configured ==
    [ descope_inbound_app_client_id |-> Some(ClientId),
      descope_inbound_app_client_secret |-> Some(ClientSecret) ]
\* the environment variables may be unset
SettingsChoices ==
    [ descope_inbound_app_client_id : {None, Some(ClientId)},
      descope_inbound_app_client_secret : {None, Some(ClientSecret)} ]

\* no request has been made yet
NoRequests ==
    /\ gate = Idle
    /\ enf = Idle
    /\ enfNoClaim = Idle
    /\ authz = Idle
    /\ cbreq = None
    /\ cb = Idle
    /\ tok = Idle
    /\ consumed = {}

\* the state after construction: TokenVerifier.__init__ has run
Init ==
    /\ jwks_client \in {"PyJWKClient", "None"}
    /\ settings = Configured
    /\ NoRequests

\* ------------------------------------------------------ Authentication Gate
\* a request to a protected route: the dependency TokenVerifier.__call__ runs
ProtectedRequest ==
    \E token \in {None} \cup {Some(t) : t \in Tokens},
       scopes \in EndpointScopes,
       jwks \in JwksOutcomes :
        /\ gate' = [ called |-> TRUE, token |-> token, scopes |-> scopes, jwks |-> jwks,
                     out |-> TokenVerifierCall(token, scopes, jwks_client, jwks) ]
        /\ UNCHANGED <<jwks_client, settings, enf, enfNoClaim, authz, cbreq, cb, tok, consumed>>

NextGate == ProtectedRequest
SpecGate == Init /\ [][NextGate]_vars

\* ----------------------------------------------------------- Scope Enforcer
ScopeChunks == {"read:messages", "write:messages", " "}
ScopeClaims ==
    {StrClaim(s) : s \in SeqsUpTo(ScopeChunks, MaxClaimLen)}
    \cup {ListClaim(l) : l \in SeqsUpTo({ReadMessages, WriteMessages}, 2)}
Requirements == SeqsUpTo({ReadMessages, WriteMessages, ReadMessages \o WriteMessages}, MaxReq)

Pending(scope_claim, required_scopes) ==
    [called |-> FALSE, scope_claim |-> scope_claim, required_scopes |-> required_scopes]

\* two calls of _enforce_scopes are about to be made: one on a claim set that
\* carries a scope claim, one on a claim set that carries none
InitScope ==
    /\ jwks_client = "PyJWKClient"
    /\ settings = Configured
    /\ gate = Idle /\ authz = Idle /\ cbreq = None /\ cb = Idle /\ tok = Idle
    /\ consumed = {}
    /\ enf \in {Pending(c, r) : c \in ScopeClaims, r \in Requirements}
    /\ enfNoClaim \in {Pending(NoScopeClaim, r) : r \in EndpointScopes \ {<<>>}}

EnforceScopesCall ==
    /\ ~enf.called
    /\ enf' = [ called |-> TRUE, scope_claim |-> enf.scope_claim,
                required_scopes |-> enf.required_scopes,
                result |-> EnforceScopes(enf.scope_claim, enf.required_scopes) ]
    /\ UNCHANGED <<jwks_client, settings, gate, enfNoClaim, authz, cbreq, cb, tok, consumed>>

EnforceScopesNoClaimCall ==
    /\ ~enfNoClaim.called
    /\ enfNoClaim' = [ called |-> TRUE, scope_claim |-> enfNoClaim.scope_claim,
                       required_scopes |-> enfNoClaim.required_scopes,
                       result |-> EnforceScopes(enfNoClaim.scope_claim,
                                                enfNoClaim.required_scopes) ]
    /\ UNCHANGED <<jwks_client, settings, gate, enf, authz, cbreq, cb, tok, consumed>>

NextScope == EnforceScopesCall \/ EnforceScopesNoClaimCall
SpecScope == InitScope /\ [][NextScope]_vars

\* ------------------------------------------------------------ the OAuth flow
\* what callers put in state and in redirect_uri
StateChunks == {"xyz", "&", "\""}
CallerStates == {None} \cup {Some(x) : x \in SeqsUpTo(StateChunks, MaxStateLen)}
CallerRedirectUri == <<"https://chat.openai.com/aip/g-1/oauth/callback">>
CallerRedirectUris == {None, Some(<<>>), Some(CallerRedirectUri)}
ResponseTypes == {None, Some(<<"code">>), Some(<<"token">>)}
CallerClientIds == {None, Some(<<"gpt-client">>)}
CallerScopes == {None, Some(<<"read:messages">>)}

InitOAuth ==
    /\ jwks_client = "PyJWKClient"
    /\ settings \in SettingsChoices
    /\ NoRequests

\* GET /authorize.  The handlers keep nothing between requests; the model follows
\* one user agent through one flow.
AuthorizeRequest ==
    /\ ~authz.called /\ ~cb.called
    /\ \E response_type \in ResponseTypes, client_id \in CallerClientIds,
          redirect_uri \in CallerRedirectUris, scope \in CallerScopes,
          state \in CallerStates :
        authz' = [ called |-> TRUE, response_type |-> response_type, client_id |-> client_id,
                   redirect_uri |-> redirect_uri, scope |-> scope, state |-> state,
                   out |-> Authorize(response_type, client_id, redirect_uri, scope,
                                     state, settings) ]
    /\ UNCHANGED <<jwks_client, settings, gate, enf, enfNoClaim, cbreq, cb, tok, consumed>>

AuthorizationCodes == {<<"code-1">>}

\* the user agent followed authorize's redirect; the provider reads the state
\* parameter of the URL it was sent, and sends the user agent on to the
\* registered callback with a code, or with an error, and that state unchanged
ProviderRedirect ==
    /\ authz.called /\ authz.out.kind = "redirect"
    /\ \E answer \in [code : {Some(c) : c \in AuthorizationCodes}, error : {None},
                      error_description : {None}]
                \cup [code : {None}, error : {Some(<<"access_denied">>)},
                      error_description : {None, Some(<<"User denied access">>)}] :
        cbreq' = Some([ code |-> answer.code,
                        state |-> UrlParam(authz.out.location[1], <<"state">>),
                        error |-> answer.error,
                        error_description |-> answer.error_description ])
    /\ UNCHANGED <<jwks_client, settings, gate, enf, enfNoClaim, authz, cb, tok, consumed>>

\* GET /api/oauth/callback handled: oauth_callback answers from the request
\* alone.  The record notes whether a callback with this state parameter had
\* been answered with a redirect before.
HandleCallback(req, from_provider) ==
    LET out == OauthCallback(req.code, req.state, req.error, req.error_description)
    IN  /\ cb' = [ called |-> TRUE, from_provider |-> from_provider, req |-> req,
                   out |-> out,
                   replayed |-> Truthy(req.state) /\ req.state[1] \in consumed ]
        /\ consumed' = IF out.kind = "redirect" /\ Truthy(req.state)
                       THEN consumed \cup {req.state[1]}
                       ELSE consumed

\* GET /api/oauth/callback, the user agent arriving from the provider
ProviderCallback ==
    /\ cbreq # None
    /\ HandleCallback(cbreq[1], TRUE)
    /\ UNCHANGED <<jwks_client, settings, gate, enf, enfNoClaim, authz, cbreq, tok>>

\* state parameters nobody got from authorize
ForgedStates ==
    { None, Some(<<>>), Some(<<"xyz">>), Some(<<"1">>), Some(<<"null">>),
      Some(JsonString(<<"xyz">>)),
      Some(<<"{", "}">>),
      Some(<<"{">> \o JsonString(<<"redirect_uri">>) \o <<":", "null", "}">>),
      Some(<<"{">> \o JsonString(<<"state">>) \o <<":">> \o JsonString(<<"xyz">>) \o <<"}">>),
      Some(DumpsState(<<"xyz">>, <<"https://elsewhere.example/cb">>)) }

DirectCallbacks ==
    [ code : {None, Some(<<>>), Some(<<"code-9">>)},
      state : ForgedStates,
      error : {None, Some(<<>>), Some(<<"access_denied">>)},
      error_description : {None, Some(<<"User denied access">>)} ]

\* GET /api/oauth/callback from anyone, with no authorize before it
DirectCallback ==
    /\ ~authz.called /\ ~cb.called
    /\ \E req \in DirectCallbacks : HandleCallback(req, FALSE)
    /\ UNCHANGED <<jwks_client, settings, gate, enf, enfNoClaim, authz, cbreq, tok>>

\* GET /api/oauth/callback once more with the request of the last callback: the
\* user agent reloads the URL, or someone who saw it sends it again
ReplayCallback ==
    /\ cb.called
    /\ HandleCallback(cb.req, cb.from_provider)
    /\ UNCHANGED <<jwks_client, settings, gate, enf, enfNoClaim, authz, cbreq, tok>>

NextOAuth ==
    AuthorizeRequest \/ ProviderRedirect \/ ProviderCallback \/ DirectCallback
        \/ ReplayCallback
SpecOAuth == InitOAuth /\ [][NextOAuth]_vars

\* ---------------------------------------------------------- the token request
ContentTypes == {"application/json", "application/x-www-form-urlencoded", "text/plain"}
BodyFormats == {"json", "form"}
TokenFields ==
    [ grant_type : {None, Some(<<"authorization_code">>), Some(<<"client_credentials">>)},
      code : {None, Some(<<>>), Some(<<"code-1">>)},
      client_id : {None, Some(<<"gpt-client">>)},
      client_secret : {None, Some(<<"gpt-secret">>)} ]

\* what the provider's token endpoint answers, or that the POST failed
ProviderReplies ==
    { [kind |-> "json", status |-> 200, body |-> <<"{\"access_token\": ...}">>],
      [kind |-> "json", status |-> 400, body |-> <<"{\"error\": \"invalid_grant\"}">>],
      [kind |-> "not-json", status |-> 502, body |-> <<"<html>Bad Gateway</html>">>],
      [kind |-> "connect-error", status |-> 0, body |-> <<>>] }

InitToken ==
    /\ jwks_client = "PyJWKClient"
    /\ settings \in SettingsChoices
    /\ NoRequests

\* POST /token
TokenRequest ==
    /\ \E content_type \in ContentTypes, body_format \in BodyFormats,
          fields \in TokenFields, reply \in ProviderReplies :
        LET out == Token(content_type, body_format, fields, settings, reply)
        IN  tok' = [ called |-> TRUE, content_type |-> content_type,
                     body_format |-> body_format, fields |-> fields,
                     reply |-> IF out.outbound = None THEN None ELSE Some(reply),
                     out |-> out ]
    /\ UNCHANGED <<jwks_client, settings, gate, enf, enfNoClaim, authz, cbreq, cb, consumed>>

NextToken == TokenRequest
SpecToken == InitToken /\ [][NextToken]_vars

\* ------------------------------------------------------------------ claims

\* whether some check on the resolve / validate / enforce path fails for the
\* request recorded in gate, read off the request itself
VerificationFails ==
    \/ jwks_client = "None"
    \/ gate.jwks # "key"
    \/ gate.token[1].alg # "RS256"
    \/ gate.token[1].sig # "valid"
    \/ gate.token[1].exp = "past"
    \/ gate.token[1].iss \notin {"https://api.descope.com/v1/apps/P2abc", "P2abc"}
    \/ gate.token[1].aud # "P2abc"
    \/ /\ gate.scopes # <<>>
       /\ \/ gate.token[1].scope.t = "none"
          \/ /\ gate.token[1].scope.t = "str"
             /\ ~(Range(gate.scopes) \subseteq Range(Split(gate.token[1].scope.v)))
          \/ /\ gate.token[1].scope.t = "list"
             /\ ~(Range(gate.scopes) \subseteq Range(gate.token[1].scope.v))

\* C1: a token-bearing request whose key resolution, validation or scope
\* enforcement fails ends UNAUTHORIZED with a cause string, and never with a
\* success payload.
C1_FailureIsUnauthorized ==
    (gate.called /\ gate.token # None /\ VerificationFails)
        => /\ gate.out.kind = "raise"
           /\ gate.out.exc = "UnauthorizedException"
           /\ gate.out.cause # <<>>
           /\ gate.out.payload = <<>>

\* C2: a request without a credential ends UNAUTHENTICATED whatever the
\* operation's required scopes; no key is resolved and no payload returned.
C2_NoTokenIsUnauthenticated ==
    (gate.called /\ gate.token = None)
        => /\ gate.out.kind = "raise"
           /\ gate.out.exc = "UnauthenticatedException"
           /\ gate.out.steps = <<>>
           /\ gate.out.payload = <<>>

C2_Witness ==
    /\ gate.called /\ gate.token = None /\ gate.scopes = <<>>
    /\ gate.out.exc = "UnauthenticatedException"

\* the granted-scope set of a scope string, stated without the program's split:
\* the maximal runs of chunks that hold no whitespace
GrantedSet(s) ==
    { SubSeq(s, i, j) : i \in 1..Len(s), j \in 1..Len(s) } \cap
    { w \in SeqsUpTo(Range(s) \ {" "}, Len(s)) :
        /\ w # <<>>
        /\ \E i \in 1..Len(s) :
            LET j == i + Len(w) - 1
            IN  /\ j <= Len(s)
                /\ SubSeq(s, i, j) = w
                /\ (i = 1 \/ s[i - 1] = " ")
                /\ (j = Len(s) \/ s[j + 1] = " ") }

\* C3: on a scope string, the Scope Enforcer succeeds iff every required
\* permission is in the granted set G, whatever the order and the duplicates,
\* and on failure its missing list holds exactly the permissions of R \ G.
C3_EnforceIffSubset ==
    (enf.called /\ enf.scope_claim.t = "str")
        => LET G == GrantedSet(enf.scope_claim.v)
               R == Range(enf.required_scopes)
           IN  /\ enf.result.ok <=> (R \subseteq G)
               /\ ~enf.result.ok => Range(enf.result.missing) = R \ G

C3_Witness ==
    /\ enf.called /\ enf.scope_claim.t = "str"
    /\ ~enf.result.ok
    /\ Cardinality(Range(enf.result.missing)) = 2
    /\ Range(Split(enf.scope_claim.v)) # {}

\* C4: with at least one scope required, a claim set without a scope claim
\* fails, and the error it reports is never the error reported for a scope
\* claim that is present and lacks required permissions.
C4_MissingClaimDistinct ==
    enfNoClaim.called
        => /\ ~enfNoClaim.result.ok
           /\ (enf.called /\ ~enf.result.ok)
                => <<enfNoClaim.result.exc, enfNoClaim.result.cause>>
                     # <<enf.result.exc, enf.result.cause>>

C4_Witness ==
    /\ enfNoClaim.called /\ enf.called
    /\ ~enfNoClaim.result.ok /\ ~enf.result.ok
    /\ enf.scope_claim = StrClaim(<<>>)
    /\ enf.required_scopes = enfNoClaim.required_scopes

\* C5: when the provider echoes the state parameter it was sent, the callback's
\* redirect targets the caller's redirect_uri and carries the provider's code
\* and the caller's state (an absent state and an empty one both mean none).
C5_RoundTrip ==
    (cb.called /\ cb.from_provider /\ cb.req.error = None)
        => /\ cb.out.kind = "redirect"
           /\ UrlTarget(cb.out.location[1]) = authz.redirect_uri[1]
           /\ UrlParam(cb.out.location[1], <<"code">>) = cb.req.code
           /\ OrElse(UrlParam(cb.out.location[1], <<"state">>), <<>>)
                = OrElse(authz.state, <<>>)

\* the three outcomes of an authorize request
AuthzInvalidRequest ==
    authz.out.kind = "error" /\ authz.out.status = 400
    /\ authz.out.error = <<"invalid_request">>
AuthzUnsupportedResponseType ==
    authz.out.kind = "error" /\ authz.out.status = 400
    /\ authz.out.error = <<"unsupported_response_type">>
AuthzRedirectsToProvider ==
    authz.out.kind = "redirect"
    /\ UrlTarget(authz.out.location[1]) = <<"https://api.descope.com/oauth2/v1/apps/authorize">>

\* C6 as stated: redirect_uri and response_type alone decide the outcome of an
\* authorize request, whatever client_id, scope and state are.
C6_OutcomeByRedirectUriAndResponseType ==
    authz.called
        => LET missing == ~Truthy(authz.redirect_uri) \/ ~Truthy(authz.response_type)
               code == authz.response_type = Some(<<"code">>)
           IN  /\ AuthzInvalidRequest <=> missing
               /\ AuthzUnsupportedResponseType <=> (~missing /\ ~code)
               /\ AuthzRedirectsToProvider <=> (~missing /\ code)

\* C6 amended: client_id, redirect_uri and response_type decide the outcome:
\* invalid_request exactly when one of the three is missing or empty,
\* unsupported_response_type exactly when all are there and response_type is
\* not "code", and a redirect to the provider's authorize endpoint otherwise,
\* whatever scope and state are.
C6_OutcomeByRequiredParameters ==
    authz.called
        => LET missing == \/ ~Truthy(authz.client_id)
                          \/ ~Truthy(authz.redirect_uri)
                          \/ ~Truthy(authz.response_type)
               code == authz.response_type = Some(<<"code">>)
           IN  /\ AuthzInvalidRequest <=> missing
               /\ AuthzUnsupportedResponseType <=> (~missing /\ ~code)
               /\ AuthzRedirectsToProvider <=> (~missing /\ code)

C6_Witness ==
    /\ authz.called
    /\ authz.client_id = None
    /\ Truthy(authz.redirect_uri)
    /\ authz.response_type = Some(<<"code">>)
    /\ AuthzInvalidRequest

\* the token request's body reached token() as the fields the caller sent
BodyRead ==
    \/ tok.content_type = "application/json" /\ tok.body_format = "json"
    \/ tok.content_type = "application/x-www-form-urlencoded" /\ tok.body_format = "form"
    \/ tok.content_type = "text/plain" /\ tok.body_format = "json"

\* C7: a token request whose grant_type is there and is not authorization_code
\* is answered 400 unsupported_grant_type, with or without a code or client
\* credentials in its body, and nothing is sent to the provider.
C7_UnsupportedGrantType ==
    ( /\ tok.called /\ BodyRead
      /\ Truthy(tok.fields.grant_type)
      /\ tok.fields.grant_type # Some(<<"authorization_code">>) )
        => /\ tok.out.kind = "error" /\ tok.out.status = 400
           /\ tok.out.error = <<"unsupported_grant_type">>
           /\ tok.out.outbound = None

CredentialsSet ==
    Truthy(settings.descope_inbound_app_client_id)
    /\ Truthy(settings.descope_inbound_app_client_secret)

SentWithOwnCredentials ==
    /\ tok.out.outbound # None
    /\ Some(tok.out.outbound[1].data.client_id) = settings.descope_inbound_app_client_id
    /\ Some(tok.out.outbound[1].data.client_secret) = settings.descope_inbound_app_client_secret

\* C8 as stated: with the provider credentials set, grant_type=authorization_code
\* and a non-empty code are all a token request needs to be exchanged, and the
\* exchange carries the process-held credentials.
C8_OnlyGrantTypeAndCode ==
    ( /\ tok.called /\ BodyRead /\ CredentialsSet
      /\ tok.fields.grant_type = Some(<<"authorization_code">>)
      /\ Truthy(tok.fields.code) )
        => SentWithOwnCredentials

\* C8 amended: a token request is exchanged exactly when its body is read,
\* grant_type is authorization_code, code, client_id and client_secret are all
\* non-empty and the provider credentials are set; the client_id and
\* client_secret of the POST are the process-held ones, never the caller's.
C8_ExchangeWithOwnCredentials ==
    tok.called
        => /\ tok.out.outbound # None
                <=> /\ BodyRead /\ CredentialsSet
                    /\ tok.fields.grant_type = Some(<<"authorization_code">>)
                    /\ Truthy(tok.fields.code)
                    /\ Truthy(tok.fields.client_id)
                    /\ Truthy(tok.fields.client_secret)
           /\ tok.out.outbound # None
                => /\ SentWithOwnCredentials
                   /\ tok.out.outbound[1].url = <<"https://api.descope.com/oauth2/v1/apps/token">>
                   /\ Some(tok.out.outbound[1].data.code) = tok.fields.code
                   /\ tok.out.outbound[1].data.client_id # tok.fields.client_id[1]
                   /\ tok.out.outbound[1].data.client_secret # tok.fields.client_secret[1]

C8_Witness ==
    /\ tok.called /\ tok.out.outbound # None
    /\ tok.fields.client_secret = Some(<<"gpt-secret">>)
    /\ tok.out.outbound[1].data.client_secret = <<"descope-client-secret">>

\* C9: the provider's JSON answer is relayed with its body unchanged and with
\* its HTTP status, so an error answer reaches the caller as an error.
C9_RelaysBodyAndStatus ==
    (tok.called /\ tok.out.outbound # None /\ tok.reply[1].kind = "json")
        => /\ tok.out.kind = "json"
           /\ tok.out.body = tok.reply[1].body
           /\ tok.out.status = tok.reply[1].status

\* C10: a callback whose error parameter is set is answered with that error and
\* its description, whatever code and state are, and never with a redirect.
C10_ErrorIsPropagated ==
    (cb.called /\ Truthy(cb.req.error))
        => /\ cb.out.kind = "error"
           /\ cb.out.error = cb.req.error[1]
           /\ cb.out.error_description = cb.req.error_description
           /\ cb.out.location = None

C10_Witness ==
    /\ cb.called
    /\ cb.req.error = Some(<<"access_denied">>)
    /\ Truthy(cb.req.code)
    /\ cb.req.state = Some(DumpsState(<<"xyz">>, <<"https://elsewhere.example/cb">>))
    /\ cb.out.kind = "error"

\* a state parameter that deserializes into an AuthorizationState: a JSON object
\* whose redirect_uri is a non-empty string
IsAuthorizationState(state) ==
    LET doc == Loads(state)
    IN  /\ doc.ok /\ doc.value.t = "obj"
        /\ DictGet(doc.value.v, <<"redirect_uri">>, JNull).t = "str"
        /\ DictGet(doc.value.v, <<"redirect_uri">>, JNull).v # <<>>

\* C11: a callback with a code, no error and a state that does not deserialize
\* into an AuthorizationState is answered with a redirect that carries the code
\* to the default caller redirect target, never with an error.
C11_BadStateFallsBackToDefault ==
    ( /\ cb.called /\ ~Truthy(cb.req.error) /\ Truthy(cb.req.code)
      /\ Truthy(cb.req.state) /\ ~IsAuthorizationState(cb.req.state[1]) )
        => /\ cb.out.kind = "redirect"
           /\ UrlTarget(cb.out.location[1]) = <<"https://chat.openai.com/oauth/callback">>
           /\ UrlParam(cb.out.location[1], <<"code">>) = cb.req.code

\* whether the confidential client secret stands in a text
HoldsSecret(text) == "descope-client-secret" \in Range(text)

\* C12: the client secret of the provider credentials is in no log line and in
\* no response of authorize, token or callback; only the POST to the provider's
\* token endpoint carries it.
C12_SecretNeverExposed ==
    /\ authz.called
         => /\ \A i \in 1..Len(authz.out.log) : ~HoldsSecret(authz.out.log[i])
            /\ authz.out.location # None => ~HoldsSecret(authz.out.location[1])
    /\ cb.called
         => /\ \A i \in 1..Len(cb.out.log) : ~HoldsSecret(cb.out.log[i])
            /\ cb.out.location # None => ~HoldsSecret(cb.out.location[1])
    /\ tok.called
         => /\ \A i \in 1..Len(tok.out.log) : ~HoldsSecret(tok.out.log[i])
            /\ ~HoldsSecret(tok.out.body)
            /\ ~HoldsSecret(tok.out.error_description)

\* the serialized AuthorizationState the authorize request of this flow created
IssuedStates ==
    IF authz.called /\ authz.out.kind = "redirect"
    THEN {DumpsState(OrElse(authz.state, <<>>), authz.redirect_uri[1])}
    ELSE {}

\* the redirect_uri a state parameter embeds, if it embeds one
EmbeddedRedirectUri(state) ==
    LET doc == Loads(state)
    IN  IF doc.ok /\ doc.value.t = "obj"
           /\ DictGet(doc.value.v, <<"redirect_uri">>, JNull).t = "str"
        THEN Some(DictGet(doc.value.v, <<"redirect_uri">>, JNull).v)
        ELSE None

\* C13: an AuthorizationState is consumed at most once: no callback is answered
\* with a redirect when a callback with the same state was already answered
\* with one, and no callback whose state no authorize request created is
\* redirected to the redirect_uri that state embeds.
C13_StateConsumedAtMostOnce ==
    (cb.called /\ cb.out.kind = "redirect" /\ Truthy(cb.req.state))
        => /\ ~cb.replayed
           /\ ( /\ cb.req.state[1] \notin IssuedStates
                /\ EmbeddedRedirectUri(cb.req.state[1]) # None )
                 => UrlTarget(cb.out.location[1]) # EmbeddedRedirectUri(cb.req.state[1])[1]

\* C14: on an operation with required scopes the gate returns a payload only
\* when key resolution, decoding and scope enforcement all succeeded, and the
\* payload is the token's decoded claim set; every verification failure there
\* raises UnauthorizedException, and the mock payload is never returned.
C14_ScopedOperationNeverMocked ==
    (gate.called /\ gate.token # None /\ gate.scopes # <<>>)
        => /\ gate.out.payload # <<MockPayload>>
           /\ VerificationFails
                => /\ gate.out.kind = "raise"
                   /\ gate.out.exc = "UnauthorizedException"
                   /\ gate.out.payload = <<>>
           /\ ~VerificationFails
                => /\ gate.out.kind = "return"
                   /\ gate.out.payload = <<Claims(gate.token[1])>>
                   /\ gate.out.steps = <<"_get_signing_key", "_decode_token", "_enforce_scopes">>

\* a scoped operation refused although the token itself is valid: only the
\* scope enforcement failed
C14_Witness ==
    /\ gate.called /\ gate.token # None /\ gate.scopes # <<>>
    /\ VerificationFails
    /\ gate.out.steps = <<"_get_signing_key", "_decode_token", "_enforce_scopes">>
    /\ gate.out.kind = "raise" /\ gate.out.exc = "UnauthorizedException"

====
